---- MODULE Spec2Model ----
(***************************************************************************)
(* Model of src/main.py: the filename sanitizer sanitize_filename and the  *)
(* Streamlit shell around it (API key lookup, the essay form, the          *)
(* generation call and the download button).                               *)
(*                                                                         *)
(* A Python str is a sequence of Unicode code points (integers).           *)
(***************************************************************************)
EXTENDS Integers, Sequences, FiniteSets, TLC

VARIABLES
    \* ---- sanitize_filename, called on its own (SanSpec) ----
    filename,            \* the argument of sanitize_filename
    trace,               \* the values `filename` takes after steps 1..4 and the returned value
    result,              \* the value returned by sanitize_filename(filename)
    again,               \* the value returned by sanitize_filename(result)
    san_pc,              \* "call" | "returned" | "again"
    \* ---- the shell (Spec) ----
    env_key,             \* os.getenv("OPENROUTER_API_KEY")
    secret,              \* st.secrets["OPENROUTER_API_KEY"], or "<KeyError>" when the lookup raises
    openrouter_api_key,  \* module variable set at lines 50-53
    pc,                  \* "init" | "idle" | "generating" | "stopped"
    essay_topic,         \* value of the text area in the current script run
    submit_button,       \* value of the form's submit button in the current script run
    screen,              \* elements rendered by the current script run, in order
    gen_result,          \* outcome of generate_essay in the current script run
    run_calls,           \* generate_essay invocations in the current script run
    calls                \* generate_essay invocations so far

sanVars == <<filename, trace, result, again, san_pc>>
shellVars == <<env_key, secret, openrouter_api_key, pc, essay_topic, submit_button,
               screen, gen_result, run_calls, calls>>
vars == <<filename, trace, result, again, san_pc,
          env_key, secret, openrouter_api_key, pc, essay_topic, submit_button,
          screen, gen_result, run_calls, calls>>

(***************************************************************************)
(* Bounds of the model                                                     *)
(***************************************************************************)
MaxLen == 3          \* short sanitizer inputs: every string of at most MaxLen code points
MaxSuffix == 1       \* long sanitizer inputs: suffix of at most MaxSuffix code points
PadSpread == 3       \* long sanitizer inputs: pad lengths MaxFilenameLen-PadSpread .. MaxFilenameLen+1
ShellMaxLen == 1     \* topics typed into the form: at most ShellMaxLen code points (plus fixed ones)
MaxCalls == 2        \* cap on the session's generate_essay invocations

\* filename[:50]
MaxFilenameLen == 50

(***************************************************************************)
(* Code points of the model:                                               *)
(*   97 a   55 7   95 _   45 -   32 space   33 !   60 <                    *)
(*   233 e-acute   769 combining acute   20013 CJK "zhong"                 *)
(*   160 no-break space   65308 fullwidth <                                *)
(***************************************************************************)
Alphabet == {97, 55, 95, 45, 32, 33, 60, 233, 769, 20013, 160, 65308}
PadChars == {97, 32, 233}
Prefixes == {<<>>, <<32>>, <<45>>}

\* "café déjà-vu"
CafeDejaVu == <<99, 97, 102, 233, 32, 100, 233, 106, 224, 45, 118, 117>>

Min(a, b) == IF a < b THEN a ELSE b
Rep(c, n) == [i \in 1..n |-> c]
SeqsUpTo(A, n) == UNION {[1..k -> A] : k \in 0..n}

RECURSIVE Concat(_)
Concat(ss) == IF ss = <<>> THEN <<>> ELSE Head(ss) \o Concat(Tail(ss))

(***************************************************************************)
(* sanitize_filename                                                       *)
(***************************************************************************)
\* mutant of NFKD: a composed form ('NFC') is asked for, nothing decomposes
NFKD_Composed(c) == <<c>>

\* unicodedata.normalize('NFKD', .) on one code point.  Every code point of
\* the model other than those listed is its own decomposition, and the
\* model holds at most one combining mark per base, so canonical
\* reordering never applies.
NFKD(c) ==
    CASE c = 233   -> <<101, 769>>   \* e-acute -> e + combining acute
      [] c = 224   -> <<97, 768>>    \* a-grave -> a + combining grave
      [] c = 160   -> <<32>>         \* no-break space -> space
      [] c = 65308 -> <<60>>         \* fullwidth < -> <
      [] OTHER     -> <<c>>

\* mutant of Normalize: the normalization is left out
Normalize_Skipped(s) == s

Normalize(s) == Concat([i \in 1..Len(s) |-> NFKD(s[i])])

\* .encode('ascii', 'ignore').decode('ascii')
IsAscii(c) == c < 128
EncodeAsciiIgnore(s) == SelectSeq(s, IsAscii)

Step1(s) == EncodeAsciiIgnore(Normalize(s))

\* mutant of IsWord: the underscore is not a word character
IsWord_NoUnderscore(c) ==
    \/ c \in 48..57
    \/ c \in 65..90
    \/ c \in 97..122
    \/ c \in {224, 233, 1593, 20013}

\* \w of a str pattern: alphanumeric or underscore.  224, 233, 1593, 20013
\* are the non-ASCII alphanumerics among the model's code points; the
\* combining marks 768, 769 and fullwidth < are not alphanumeric.
IsWord(c) ==
    \/ c \in 48..57
    \/ c \in 65..90
    \/ c \in 97..122
    \/ c = 95
    \/ c \in {224, 233, 1593, 20013}

\* \s of a str pattern, and the characters str.strip() removes
IsSpace(c) ==
    \/ c \in 9..13
    \/ c \in 28..32
    \/ c \in {133, 160, 5760, 8232, 8233, 8239, 8287, 12288}
    \/ c \in 8192..8202

\* mutant of Step2Keeps: < is left out of what step 2 removes
Step2Keeps_LessThan(c) ==
    \/ (c \in 48..57 \/ c \in 65..90 \/ c \in 97..122 \/ c = 95)
    \/ (c \in 9..13 \/ c \in 28..32)
    \/ c = 45
    \/ c = 60

\* [^\w\s-] does not match c
Step2Keeps(c) == IsWord(c) \/ IsSpace(c) \/ c = 45

RECURSIVE LStrip(_)
LStrip(s) == IF s # <<>> /\ IsSpace(Head(s)) THEN LStrip(Tail(s)) ELSE s

RECURSIVE RStrip(_)
RStrip(s) ==
    IF s # <<>> /\ IsSpace(s[Len(s)]) THEN RStrip(SubSeq(s, 1, Len(s) - 1)) ELSE s

\* mutant of Strip: .strip() is left out
Strip_Skipped(s) == s

Strip(s) == RStrip(LStrip(s))

Step2(s) == Strip(SelectSeq(s, Step2Keeps))

\* [-\s]
IsSep(c) == c = 45 \/ IsSpace(c)

RECURSIVE DropSep(_)
DropSep(s) == IF s # <<>> /\ IsSep(Head(s)) THEN DropSep(Tail(s)) ELSE s

\* re.sub(r'[-\s]+', '_', .)
RECURSIVE Step3(_)
Step3(s) ==
    IF s = <<>> THEN <<>>
    ELSE IF IsSep(Head(s)) THEN <<95>> \o Step3(DropSep(Tail(s)))
    ELSE <<Head(s)>> \o Step3(Tail(s))

\* [<>:"/\\|?*]
WindowsReserved == {60, 62, 58, 34, 47, 92, 124, 63, 42}
NotReserved(c) == c \notin WindowsReserved
Step4(s) == SelectSeq(s, NotReserved)

\* mutant of Truncate: one character too many is kept
Truncate_OffByOne(s) == SubSeq(s, 1, Min(Len(s), MaxFilenameLen + 1))

\* filename[:50]
Truncate(s) == SubSeq(s, 1, Min(Len(s), MaxFilenameLen))

\* the values of `filename` after each assignment, then the returned value
SanitizeSteps(f) ==
    LET s1 == Step1(f)
        s2 == Step2(s1)
        s3 == Step3(s2)
        s4 == Step4(s3)
    IN  <<s1, s2, s3, s4, Truncate(s4)>>

sanitize_filename(f) == SanitizeSteps(f)[5]

(***************************************************************************)
(* sanitize_filename called on its own                                     *)
(***************************************************************************)
ShortInputs == SeqsUpTo(Alphabet, MaxLen)

PadLens == (MaxFilenameLen - PadSpread)..(MaxFilenameLen + 1)

LongInputs ==
    {p \o Rep(c, n) \o t :
        p \in Prefixes, c \in PadChars, n \in PadLens, t \in SeqsUpTo(Alphabet, MaxSuffix)}

Inputs == ShortInputs \cup LongInputs \cup {CafeDejaVu}

\* the shell's variables while sanitize_filename is exercised on its own
ShellAtRest ==
    /\ env_key = "<None>"
    /\ secret = "<KeyError>"
    /\ openrouter_api_key = "<None>"
    /\ pc = "init"
    /\ essay_topic = <<>>
    /\ submit_button = FALSE
    /\ screen = <<>>
    /\ gen_result = [kind |-> "none"]
    /\ run_calls = 0
    /\ calls = 0

SanInit ==
    /\ filename \in Inputs
    /\ trace = <<>>
    /\ result = <<>>
    /\ again = <<>>
    /\ san_pc = "call"
    /\ ShellAtRest

\* result = sanitize_filename(filename)
Call ==
    /\ san_pc = "call"
    /\ trace' = SanitizeSteps(filename)
    /\ result' = sanitize_filename(filename)
    /\ san_pc' = "returned"
    /\ UNCHANGED <<filename, again>>
    /\ UNCHANGED shellVars

\* again = sanitize_filename(result)
CallAgain ==
    /\ san_pc = "returned"
    /\ again' = sanitize_filename(result)
    /\ san_pc' = "again"
    /\ UNCHANGED <<filename, trace, result>>
    /\ UNCHANGED shellVars

SanNext == Call \/ CallAgain

SanSpec == SanInit /\ [][SanNext]_vars

(***************************************************************************)
(* The shell: one Streamlit script run per user event                      *)
(***************************************************************************)
\* os.getenv returns None when the variable is unset
EnvValues == {"<None>", "", "sk-or-1"}
\* st.secrets[...] raises when the secrets file or the key is missing
SecretValues == {"<KeyError>", "", "sk-or-2"}

\* what generate_essay can return, and the str(e) of what it can raise
Essays == {"essay A", "essay B"}
Errors == {"Connection error.", "Error code: 401"}

ShellTopics ==
    SeqsUpTo(Alphabet, ShellMaxLen)
        \cup {Rep(c, MaxFilenameLen + 1) : c \in PadChars}
        \cup {CafeDejaVu}

\* Python truthiness of a str or None
Truthy(v) == v # "<None>" /\ v # ""

\* lines 50-53: os.getenv(...) or st.secrets[...], None when that raises
LookupKey(env, sec) ==
    IF Truthy(env) THEN env
    ELSE IF sec = "<KeyError>" THEN "<None>"
    ELSE sec

\* mutant of KeyMissing: "is None" in place of "not"
KeyMissing_IsNone(k) == k = "<None>"

\* line 55: not openrouter_api_key
KeyMissing(k) == ~Truthy(k)

\* lines 56-60
ApiKeyError == [kind |-> "error", text |-> <<"API key not found!">>]

\* lines 94-104: title, intro and the form
FormScreen ==
    << [kind |-> "title"], [kind |-> "intro"], [kind |-> "form"] >>

\* mutant of ShouldGenerate: the topic is not tested
ShouldGenerate_AnyTopic(submit, topic) == submit

\* line 106: submit_button and essay_topic
ShouldGenerate(submit, topic) == submit /\ topic # <<>>

\* line 129: submit_button and not essay_topic
ShouldWarn(submit, topic) == submit /\ topic = <<>>

\* line 130
Warning == [kind |-> "warning", text |-> <<"Please enter a topic for your essay">>]

\* mutant of FileName: the raw topic is used for the file name
FileName_Raw(topic) ==
    <<101, 115, 115, 97, 121, 95>>
        \o SubSeq(topic, 1, Min(Len(topic), MaxFilenameLen))
        \o <<46, 116, 120, 116>>

\* line 118: f"essay_{safe_filename[:50]}.txt"
FileName(topic) ==
    LET safe_filename == sanitize_filename(topic)
    IN  <<101, 115, 115, 97, 121, 95>>
            \o SubSeq(safe_filename, 1, Min(Len(safe_filename), MaxFilenameLen))
            \o <<46, 116, 120, 116>>

\* lines 111-125: what the try block renders once generate_essay has returned
SuccessScreen(topic, essay) ==
    << [kind |-> "success", text |-> <<"Your essay is ready!">>],
       [kind |-> "rule"],
       [kind |-> "subheader", text |-> <<"Essay: ", topic>>],
       [kind |-> "markdown", text |-> <<essay>>],
       [kind |-> "download", data |-> essay, file_name |-> FileName(topic),
        mime |-> "text/plain"] >>

\* mutant of ExceptScreen: the message leaves out str(e)
ExceptScreen_NoDetail(e) ==
    << [kind |-> "error", text |-> <<"An error occurred">>] >>

\* lines 127-128: f"An error occurred: {str(e)}"
ExceptScreen(e) ==
    << [kind |-> "error", text |-> <<"An error occurred: ", e>>] >>

HasKind(scr, k) == \E i \in 1..Len(scr) : scr[i].kind = k
CountKind(scr, k) == Cardinality({i \in 1..Len(scr) : scr[i].kind = k})

Init ==
    /\ env_key \in EnvValues
    /\ secret \in SecretValues
    /\ openrouter_api_key = "<None>"
    /\ pc = "init"
    /\ essay_topic = <<>>
    /\ submit_button = FALSE
    /\ screen = <<>>
    /\ gen_result = [kind |-> "none"]
    /\ run_calls = 0
    /\ calls = 0
    /\ filename = <<>>
    /\ trace = <<>>
    /\ result = <<>>
    /\ again = <<>>
    /\ san_pc = "call"

\* One run of the script from line 1 up to the generation call or to its end,
\* with the widget values the triggering event produced.
ScriptRun(topic, submit) ==
    /\ openrouter_api_key' = LookupKey(env_key, secret)
    /\ gen_result' = [kind |-> "none"]
    /\ IF KeyMissing(LookupKey(env_key, secret))
       THEN \* st.error(...); st.stop(): main() is never reached
            /\ screen' = <<ApiKeyError>>
            /\ pc' = "stopped"
            /\ essay_topic' = <<>>
            /\ submit_button' = FALSE
            /\ run_calls' = 0
            /\ calls' = calls
       ELSE /\ essay_topic' = topic
            /\ submit_button' = submit
            /\ IF ShouldGenerate(submit, topic)
               THEN \* the spinner is up and generate_essay is awaited
                    /\ screen' = FormScreen
                    /\ pc' = "generating"
                    /\ run_calls' = 1
                    /\ calls' = calls + 1
               ELSE /\ screen' = IF ShouldWarn(submit, topic)
                                 THEN Append(FormScreen, Warning)
                                 ELSE FormScreen
                    /\ pc' = "idle"
                    /\ run_calls' = 0
                    /\ calls' = calls
    /\ UNCHANGED <<env_key, secret>>
    /\ UNCHANGED sanVars

\* the page is opened or reloaded: a new session, widgets at their defaults
PageLoad ==
    /\ pc \in {"init", "idle", "stopped"}
    /\ ScriptRun(<<>>, FALSE)

\* the user types a topic and presses "Generate Essay"
Submit(t) ==
    /\ pc = "idle"
    /\ HasKind(screen, "form")
    /\ t # <<>> => calls < MaxCalls
    /\ ScriptRun(t, TRUE)

\* the user presses "Download Essay": the script reruns, the form keeps its text
DownloadClick ==
    /\ pc = "idle"
    /\ HasKind(screen, "download")
    /\ ScriptRun(essay_topic, FALSE)

\* line 109 returns: lines 111-125
GenerateReturns(essay) ==
    /\ pc = "generating"
    /\ gen_result' = [kind |-> "returned", essay |-> essay]
    /\ screen' = screen \o SuccessScreen(essay_topic, essay)
    /\ pc' = "idle"
    /\ UNCHANGED <<env_key, secret, openrouter_api_key, essay_topic, submit_button,
                   run_calls, calls>>
    /\ UNCHANGED sanVars

\* line 109 raises an Exception: lines 127-128
GenerateRaises(e) ==
    /\ pc = "generating"
    /\ gen_result' = [kind |-> "raised", error |-> e]
    /\ screen' = screen \o ExceptScreen(e)
    /\ pc' = "idle"
    /\ UNCHANGED <<env_key, secret, openrouter_api_key, essay_topic, submit_button,
                   run_calls, calls>>
    /\ UNCHANGED sanVars

Next ==
    \/ PageLoad
    \/ \E t \in ShellTopics : Submit(t)
    \/ DownloadClick
    \/ \E essay \in Essays : GenerateReturns(essay)
    \/ \E e \in Errors : GenerateRaises(e)

Spec == Init /\ [][Next]_vars

(***************************************************************************)
(* Properties of sanitize_filename (checked under SanSpec)                 *)
(***************************************************************************)
Range(s) == {s[i] : i \in 1..Len(s)}

\* [A-Za-z0-9_]
SafeChars == (48..57) \cup (65..90) \cup (97..122) \cup {95}

\* C1: for every input, sanitize_filename returns, its result holds only
\* characters of [A-Za-z0-9_], and its length is at most 50.
C1_SafeAndBounded ==
    san_pc # "call" => /\ Range(result) \subseteq SafeChars
                       /\ Len(result) <= 50

\* an input longer than 50 with punctuation, reserved or non-ASCII
\* characters in it, whose result is cut to exactly 50
C1_Witness ==
    /\ san_pc = "returned"
    /\ Len(filename) > 50
    /\ Len(result) = 50
    /\ Range(filename) \cap {33, 60, 20013, 65308} # {}

\* "caf_dj_vu"
CafDjVu == <<99, 97, 102, 95, 100, 106, 95, 118, 117>>
\* "cafe_deja_vu"
CafeDejaVuSafe == <<99, 97, 102, 101, 95, 100, 101, 106, 97, 95, 118, 117>>

\* C2 as stated: sanitize_filename("café déjà-vu") is "caf_dj_vu", the
\* accented letters being removed entirely.
C2_Original ==
    (san_pc # "call" /\ filename = CafeDejaVu) => result = CafDjVu

\* C2 as amended: sanitize_filename("café déjà-vu") is "cafe_deja_vu":
\* each accented letter becomes its base letter, and the space and the
\* hyphen each become one underscore.
C2_Amended ==
    (san_pc # "call" /\ filename = CafeDejaVu) => result = CafeDejaVuSafe

C2_Witness ==
    /\ san_pc = "returned"
    /\ filename = CafeDejaVu

\* accented Latin letters that decompose into an ASCII letter plus marks
AccentedLetters == {224, 233}
BaseLetter(c) == IF c = 224 THEN 97 ELSE 101
\* code points without any ASCII equivalent
NoAsciiEquivalent == {768, 769, 1593, 20013}

\* what step 1 is said to make of one code point
Folded(c) ==
    IF c \in AccentedLetters THEN <<BaseLetter(c)>>
    ELSE IF c \in NoAsciiEquivalent THEN <<>>
    ELSE <<c>>

\* C3: step 1 turns an accented Latin letter into its base letter and drops
\* a code point without ASCII equivalent; an input of fewer than 50 accented
\* letters and nothing else gives as many letters as it has, the base letters.
C3_AccentsFoldToBase ==
    san_pc # "call" =>
        /\ Range(filename) \subseteq (0..127) \cup AccentedLetters \cup NoAsciiEquivalent
              => trace[1] = Concat([i \in 1..Len(filename) |-> Folded(filename[i])])
        /\ (Range(filename) \subseteq AccentedLetters /\ Len(filename) < 50)
              => /\ Len(result) = Len(filename)
                 /\ \A i \in 1..Len(filename) : result[i] = BaseLetter(filename[i])

\* 49 accented letters
C3_Witness ==
    /\ san_pc = "returned"
    /\ Len(filename) = 49
    /\ Range(filename) = {233}
    /\ Len(result) = 49

\* C8: sanitize_filename(sanitize_filename(S)) = sanitize_filename(S) for
\* every S made of alphanumerics, underscore, whitespace and hyphen, of any
\* length.
C8_Idempotent ==
    (san_pc = "again" /\ \A i \in 1..Len(filename) : Step2Keeps(filename[i]))
        => again = result

\* an input of the class, longer than 50, that sanitizing changes and that
\* has an underscore in its result
C8_Witness ==
    /\ san_pc = "again"
    /\ \A i \in 1..Len(filename) : Step2Keeps(filename[i])
    /\ Len(filename) > 50
    /\ result # filename
    /\ 95 \in Range(result)

\* a code point of which the pipeline leaves nothing when nothing else is
\* there: each code point of its decomposition has no ASCII representation,
\* or is not alphanumeric, underscore or hyphen (whitespace included)
Removable(c) ==
    \A d \in Range(NFKD(c)) :
        \/ d >= 128
        \/ d \notin SafeChars \cup {45}

\* C9: the empty input, and every input made only of removable characters,
\* gives the empty string.
C9_RemovableGivesEmpty ==
    (san_pc # "call" /\ \A i \in 1..Len(filename) : Removable(filename[i]))
        => result = <<>>

\* whitespace, punctuation and a non-ASCII code point together
C9_Witness ==
    /\ san_pc = "returned"
    /\ {32, 33, 20013} \subseteq Range(filename)
    /\ \A i \in 1..Len(filename) : Removable(filename[i])
    /\ result = <<>>

\* C10: step 4 changes nothing: steps 1, 2, 3 and the truncation give the
\* result of the whole pipeline, for every input.
C10_Step4Redundant ==
    san_pc # "call" =>
        /\ trace[4] = trace[3]
        /\ result = SubSeq(trace[3], 1, Min(Len(trace[3]), 50))

\* an input with < in it, in either width, and a non-empty result
C10_Witness ==
    /\ san_pc = "returned"
    /\ {60, 65308} \subseteq Range(filename)
    /\ result # <<>>

(***************************************************************************)
(* Properties of the shell (checked under Spec)                            *)
(***************************************************************************)
\* C4: a submission with an empty topic shows the warning and invokes
\* generate_essay not at all, whatever came before.
C4_EmptyTopicNeverGenerates ==
    [][ (pc # "generating" /\ submit_button' /\ essay_topic' = <<>>)
            => /\ calls' = calls
               /\ run_calls' = 0
               /\ pc' = "idle"
               /\ gen_result'.kind = "none"
               /\ CountKind(screen', "warning") = 1
               /\ ~HasKind(screen', "download") ]_vars

\* an empty submission after earlier submissions that did generate
C4_Witness ==
    /\ submit_button
    /\ essay_topic = <<>>
    /\ calls > 0
    /\ HasKind(screen, "warning")

KeyAbsent ==
    /\ env_key \in {"<None>", ""}
    /\ secret \in {"<KeyError>", ""}

\* C5: without an API key the script stops at startup: the error banner is
\* shown, the form is never rendered, no topic is accepted and
\* generate_essay is never invoked.
C5_NoKeyHalts ==
    KeyAbsent =>
        /\ pc \in {"init", "stopped"}
        /\ pc = "stopped" => screen = <<ApiKeyError>>
        /\ ~HasKind(screen, "form")
        /\ essay_topic = <<>>
        /\ ~submit_button
        /\ calls = 0
        /\ run_calls = 0

\* an empty environment value and a secrets lookup that raises
C5_Witness ==
    /\ env_key = ""
    /\ secret = "<KeyError>"
    /\ pc = "stopped"

\* C6: when generate_essay raises, exactly one error message holding the
\* error's text is shown, the call was made once for that submission, and
\* no success banner, essay text or download button is produced.
C6_FailureShownOnce ==
    gen_result.kind = "raised" =>
        /\ pc = "idle"
        /\ run_calls = 1
        /\ CountKind(screen, "error") = 1
        /\ \A i \in 1..Len(screen) :
              screen[i].kind = "error" => gen_result.error \in Range(screen[i].text)
        /\ ~HasKind(screen, "success")
        /\ ~HasKind(screen, "subheader")
        /\ ~HasKind(screen, "markdown")
        /\ ~HasKind(screen, "download")

\* a failure that follows an earlier call of the session
C6_Witness ==
    /\ gen_result.kind = "raised"
    /\ calls = 2
    /\ essay_topic # <<>>

\* C7: a download button is there only once generate_essay has returned
\* for the submitted topic; its data is the returned essay, its file name
\* is "essay_" + sanitize_filename(topic) + ".txt", and truncating the safe
\* name to 50 again changes nothing.
C7_DownloadMatchesEssay ==
    \A i \in 1..Len(screen) :
        screen[i].kind = "download" =>
            LET safe == sanitize_filename(essay_topic)
            IN  /\ gen_result.kind = "returned"
                /\ submit_button
                /\ essay_topic # <<>>
                /\ screen[i].data = gen_result.essay
                /\ screen[i].mime = "text/plain"
                /\ screen[i].file_name =
                       <<101, 115, 115, 97, 121, 95>> \o safe \o <<46, 116, 120, 116>>
                /\ SubSeq(safe, 1, Min(Len(safe), 50)) = safe

\* a download offered for a topic longer than 50
C7_Witness ==
    /\ HasKind(screen, "download")
    /\ Len(essay_topic) > 50
    /\ gen_result.kind = "returned"

====
